---------------------------- MODULE Spec2Model ----------------------------
(***************************************************************************)
(* Model of the command-execution subsystem of Argentum:                   *)
(*   src/src/command_executor.py  (parser, local and remote backends,      *)
(*                                 execute_command, execute_commands)      *)
(*   src/src/telegram_bot.py      (run_programmer_mode_session,            *)
(*                                 handle_standard_mode,                   *)
(*                                 button_callback_handler)                *)
(*   src/src/database.py          (create_task, get_project_history,       *)
(*                                 update_task_log)                        *)
(*   src/src/gemini_client.py     (get_commands, the planner)              *)
(*                                                                         *)
(* A Python string is a sequence of atoms.  The atoms "SP", "NL" and "CR"  *)
(* are the whitespace characters space, "\n" and "\r"; every other atom is *)
(* a non-empty run of non-whitespace characters that the code never looks  *)
(* inside ("a", "/tmp/x", "<<CONTENT", "WRITE_FILE", ...).                 *)
(***************************************************************************)
EXTENDS Integers, Sequences, FiniteSets, TLC

VARIABLES
    fs,         \* the local file system: path -> node
    rfs,        \* the remote host's file system
    last,       \* the last call of execute_command: its arguments and outcome
    ncalls,     \* number of calls of execute_command made by the harness
    conns,      \* secure-shell connections opened and not closed so far
    batch,      \* the last call of execute_commands: its arguments and outcome
    tasks,      \* database table tasks: task id -> row
    planner,    \* the planner's behaviour in this session
    pc,         \* position of the session coroutine
    i,          \* loop variable of the session
    task_id,    \* id of the session's task row (0 before create_task)
    history,    \* in-memory history of the session
    last_command_output,
    command_to_execute,
    full_log,
    planner_calls,  \* number of get_commands calls made by the session
    executions,     \* number of execute_command calls completed by the session
    in_flight,      \* number of execute_command calls of the session in progress
    requests,       \* the arguments of the session's get_commands calls, in order
    sessions,       \* sessions running side by side: session -> its local variables
    chat_data,      \* context.chat_data: task id -> the directives of its plan
    callbacks,      \* the button callbacks started so far: their local variables
    runs,           \* the calls of execute_commands made by button callbacks
    proposals       \* the calls of handle_standard_mode made so far

exec_vars    == <<last, ncalls, conns>>
batch_vars   == <<batch>>
session_vars == <<tasks, planner, pc, i, task_id, history, last_command_output,
                  command_to_execute, full_log, planner_calls, executions,
                  in_flight, requests>>
multi_vars   == <<sessions>>
standard_vars == <<chat_data, callbacks, runs, proposals>>
vars == <<fs, rfs, exec_vars, batch_vars, session_vars, multi_vars, standard_vars>>

(***************************************************************************)
(* Bounds of the model.                                                    *)
(***************************************************************************)
MaxContentLen == 2      \* longest file content, in atoms, the harness writes
MaxCalls      == 2      \* calls of execute_command in one harness run
MaxBatch      == 3      \* longest list given to execute_commands

(***************************************************************************)
(* Strings.                                                                *)
(***************************************************************************)
Whitespace == {"SP", "NL", "CR"}

Range(s) == {s[k] : k \in 1..Len(s)}

SeqsUpTo(S, n) == UNION {[1..k -> S] : k \in 0..n}

StartsWith(s, pre) ==
    /\ Len(pre) <= Len(s)
    /\ SubSeq(s, 1, Len(pre)) = pre

EndsWith(s, suf) ==
    /\ Len(suf) <= Len(s)
    /\ SubSeq(s, Len(s) - Len(suf) + 1, Len(s)) = suf

\* number of leading whitespace atoms of s
RECURSIVE LeadingWs(_)
LeadingWs(s) ==
    IF s = <<>> \/ Head(s) \notin Whitespace THEN 0 ELSE 1 + LeadingWs(Tail(s))

\* number of leading non-whitespace atoms of s
RECURSIVE LeadingWord(_)
LeadingWord(s) ==
    IF s = <<>> \/ Head(s) \in Whitespace THEN 0 ELSE 1 + LeadingWord(Tail(s))

RECURSIVE TrailingWs(_)
TrailingWs(s) ==
    IF s = <<>> \/ s[Len(s)] \notin Whitespace THEN 0
    ELSE 1 + TrailingWs(SubSeq(s, 1, Len(s) - 1))

Drop(s, n) == SubSeq(s, n + 1, Len(s))

\* str.strip()
Strip(s) ==
    LET t == Drop(s, LeadingWs(s))
    IN  SubSeq(t, 1, Len(t) - TrailingWs(t))

\* str.split(maxsplit=1): the list of parts, of length 0, 1 or 2.  Leading
\* whitespace and the whitespace run after the first word are dropped; the
\* rest is kept as it is, trailing whitespace included.
SplitMax1(s) ==
    LET t    == Drop(s, LeadingWs(s))
        w    == LeadingWord(t)
        word == SubSeq(t, 1, w)
        u    == Drop(t, w)
        rest == Drop(u, LeadingWs(u))
    IN  IF t = <<>> THEN <<>>
        ELSE IF rest = <<>> THEN <<word>>
        ELSE <<word, rest>>

\* index of the first "NL" of s, 0 when there is none
RECURSIVE FirstNL(_)
FirstNL(s) ==
    IF s = <<>> THEN 0
    ELSE IF Head(s) = "NL" THEN 1
    ELSE LET r == FirstNL(Tail(s)) IN IF r = 0 THEN 0 ELSE r + 1

\* str.split('\n', 1): the list of parts, of length 1 or 2
SplitNL1(s) ==
    LET n == FirstNL(s)
    IN  IF n = 0 THEN <<s>>
        ELSE <<SubSeq(s, 1, n - 1), Drop(s, n)>>

\* str.upper() on one atom: the lower- and mixed-case spellings of the
\* keywords that the model's inputs use; other atoms stand for text whose
\* upper-case form is no keyword.
UpperAtom(a) ==
    CASE a = "shell"         -> "SHELL"
      [] a = "read_file"     -> "READ_FILE"
      [] a = "Write_File"    -> "WRITE_FILE"
      [] a = "list_files"    -> "LIST_FILES"
      [] a = "task_complete" -> "TASK_COMPLETE"
      [] OTHER               -> a

Upper(s) == [k \in 1..Len(s) |-> UpperAtom(s[k])]

\* "\n".join(names)
RECURSIVE JoinNL(_)
JoinNL(names) ==
    IF names = <<>> THEN <<>>
    ELSE IF Len(names) = 1 THEN Head(names)
    ELSE Head(names) \o <<"NL">> \o JoinNL(Tail(names))

(***************************************************************************)
(* File systems.  A file system maps each existing path to its node: a     *)
(* directory, or a file with its bytes.  The directory "." always exists   *)
(* and is not stored.  The paths the model uses are the top-level names    *)
(* and "d/g", the entry g of the directory d.                              *)
(***************************************************************************)
Dir        == [type |-> "dir"]
File(data) == [type |-> "file", data |-> data]

\* os.path.dirname
DirName(path) == IF path = <<"d/g">> THEN <<"d">> ELSE <<>>

\* os.path.basename
BaseName(path) == IF path = <<"d/g">> THEN <<"g">> ELSE path

IsFile(f, path) == path \in DOMAIN f /\ f[path].type = "file"
IsDir(f, path)  == path = <<".">> \/ (path \in DOMAIN f /\ f[path].type = "dir")

\* the direct children of directory path
Children(f, path) ==
    {q \in DOMAIN f : DirName(q) = (IF path = <<".">> THEN <<>> ELSE path)}

Put(f, path, node) ==
    [q \in DOMAIN f \cup {path} |-> IF q = path THEN node ELSE f[q]]

RECURSIVE SetToSeq(_)
SetToSeq(S) ==
    IF S = {} THEN <<>>
    ELSE LET x == CHOOSE y \in S : TRUE IN <<x>> \o SetToSeq(S \ {x})

\* str(e) of the OSError that open() or os.listdir() raises
ErrText(what, path) == <<what>> \o path \o <<"'">>
NoSuchFile(path)    == ErrText("[Errno 2] No such file or directory: '", path)
IsADirectory(path)  == ErrText("[Errno 21] Is a directory: '", path)
NotADirectory(path) == ErrText("[Errno 20] Not a directory: '", path)
FileExists(path)    == ErrText("[Errno 17] File exists: '", path)

\* open(path, 'r').read(): text mode with universal newlines, "\r\n" and
\* "\r" are read as "\n"
RECURSIVE ReadText(_)
ReadText(data) ==
    IF data = <<>> THEN <<>>
    ELSE IF Head(data) = "CR"
         THEN IF Len(data) >= 2 /\ data[2] = "NL"
              THEN <<"NL">> \o ReadText(Drop(data, 2))
              ELSE <<"NL">> \o ReadText(Tail(data))
    ELSE <<Head(data)>> \o ReadText(Tail(data))

\* open(path, 'w').write(content): text mode, "\n" is written as os.linesep,
\* which is "\n" on the Linux host the bot runs on
WriteText(content) == content

Result(command, out, err, rc) ==
    [command |-> command, stdout |-> out, stderr |-> err, returncode |-> rc]

(***************************************************************************)
(* Local backend.                                                          *)
(***************************************************************************)
\* What the host shell does with a script: the process exits with a status
\* and its output, or runs beyond the timeout, or cannot be started.
ShellRun(script) ==
    IF "sleep" \in Range(script)
      THEN [kind |-> "timeout"]
    ELSE IF "NUL" \in Range(script)
      THEN [kind |-> "error", text |-> <<"embedded null byte">>]
    ELSE IF "false" \in Range(script)
      THEN [kind |-> "exit", stdout |-> <<>>, stderr |-> <<"err", "NL">>,
            returncode |-> 1]
    ELSE IF script # <<>> /\ Head(script) \notin {"echo", "SP", "NL", "CR"}
      THEN [kind |-> "exit", stdout |-> <<>>,
            stderr |-> <<"sh: ", Head(script), ": not found", "NL">>,
            returncode |-> 127]
    ELSE [kind |-> "exit",
          stdout |-> IF script = <<>> THEN <<>> ELSE <<"out", "NL">>,
          stderr |-> <<>>, returncode |-> 0]

\* a handler that reports an expired timeout as an ordinary failure
ShellResultTimeoutAsFailure(command, p) ==
    CASE p.kind = "exit" ->
           Result(command, Strip(p.stdout), Strip(p.stderr), p.returncode)
      [] p.kind = "timeout" ->
           Result(command, <<>>, <<"Command timed out after 3 minutes.">>, 1)
      [] OTHER ->
           Result(command, <<>>, p.text, -1)

\* the result of _execute_shell when subprocess.run does p
ShellResult(command, p) ==
    CASE p.kind = "exit" ->
           Result(command, Strip(p.stdout), Strip(p.stderr), p.returncode)
      [] p.kind = "timeout" ->
           Result(command, <<>>, <<"Command timed out after 3 minutes.">>, -1)
      [] OTHER ->
           Result(command, <<>>, p.text, -1)

_execute_shell(command) == ShellResult(command, ShellRun(command))

ReadCommand(path) == <<"READ_FILE", "SP">> \o path

\* a reader that swallows the error of open() and returns nothing
_read_file_swallowing(path, f) ==
    IF IsFile(f, path)
      THEN Result(ReadCommand(path), ReadText(f[path].data), <<>>, 0)
    ELSE Result(ReadCommand(path), <<>>, <<>>, 0)

_read_file(path, f) ==
    IF IsFile(f, path)
      THEN Result(ReadCommand(path), ReadText(f[path].data), <<>>, 0)
    ELSE IF path # <<>> /\ IsDir(f, path)
      THEN Result(ReadCommand(path), <<>>, IsADirectory(path), 1)
    ELSE Result(ReadCommand(path), <<>>, NoSuchFile(path), 1)

\* the result and the file system after the call
\* os.makedirs(dir_name, exist_ok=True), when it succeeds
MakeDirs(dir_name, f) ==
    IF dir_name # <<>> /\ dir_name \notin DOMAIN f
    THEN Put(f, dir_name, Dir) ELSE f

WriteCommand(path) == <<"WRITE_FILE", "SP">> \o path

\* open(path, 'w') and f.write(content), in the file system made
OpenAndWrite(path, content, made) ==
    IF path = <<>>
      THEN [res |-> Result(WriteCommand(path), <<>>, NoSuchFile(path), 1),
            fs |-> made]
    ELSE IF IsDir(made, path)
      THEN [res |-> Result(WriteCommand(path), <<>>, IsADirectory(path), 1),
            fs |-> made]
    ELSE [res |-> Result(WriteCommand(path),
                         <<"File '">> \o path \o <<"' written successfully.">>,
                         <<>>, 0),
          fs  |-> Put(made, path, File(WriteText(content)))]

\* the result and the file system after the call
_write_file(path, content, f) ==
    IF DirName(path) # <<>> /\ IsFile(f, DirName(path))
      THEN [res |-> Result(WriteCommand(path), <<>>, FileExists(DirName(path)), 1),
            fs |-> f]
    ELSE OpenAndWrite(path, content, MakeDirs(DirName(path), f))

\* a listing that walks the whole tree below the current directory
ListDirDeep(f, path) ==
    [k \in 1..Cardinality(DOMAIN f) |-> BaseName(SetToSeq(DOMAIN f)[k])]

\* os.listdir(path): the names of the entries, in the order the file system
\* gives them
ListDir(f, path) ==
    [k \in 1..Cardinality(Children(f, path)) |->
        BaseName(SetToSeq(Children(f, path))[k])]

ListCommand(path) == <<"LIST_FILES", "SP">> \o path

_list_files(path, f) ==
    IF IsDir(f, path)
      THEN Result(ListCommand(path), JoinNL(ListDir(f, path)), <<>>, 0)
    ELSE IF IsFile(f, path)
      THEN Result(ListCommand(path), <<>>, NotADirectory(path), 1)
    ELSE Result(ListCommand(path), <<>>, NoSuchFile(path), 1)

(***************************************************************************)
(* Remote backend.  net is what the transport does during one call:        *)
(*   "ok"          the connection is made and the exchange completes,      *)
(*   "no_connect"  the key is rejected or the host is not reached,         *)
(*   "broken"      the connection is made and the exchange then fails.     *)
(***************************************************************************)
Net == {"ok", "no_connect", "broken"}

\* the whitespace-separated words of a remote command line
RECURSIVE Words(_)
Words(s) ==
    LET parts == SplitMax1(s)
    IN  IF parts = <<>> THEN <<>>
        ELSE IF Len(parts) = 1 THEN <<parts[1]>>
        ELSE <<parts[1]>> \o Words(parts[2])

\* cat of the operands, left to right
RECURSIVE CatEach(_, _)
CatEach(operands, rf) ==
    IF operands = <<>> THEN [stdout |-> <<>>, stderr |-> <<>>, returncode |-> 0]
    ELSE LET path == Head(operands)
             rest == CatEach(Tail(operands), rf)
         IN  IF IsFile(rf, path)
               THEN [rest EXCEPT !.stdout = rf[path].data \o @]
             ELSE [rest EXCEPT
                     !.stderr = <<"cat: ">> \o path \o <<": cannot be read", "NL">> \o @,
                     !.returncode = 1]

\* one line of ls -F per entry: the name, "/" after a directory's
LsLine(rf, q) ==
    BaseName(q) \o (IF rf[q].type = "dir" THEN <<"/">> ELSE <<>>) \o <<"NL">>

RECURSIVE LsLines(_, _)
LsLines(rf, entries) ==
    IF entries = <<>> THEN <<>>
    ELSE LsLine(rf, Head(entries)) \o LsLines(rf, Tail(entries))

\* ls -F of the operands, left to right
RECURSIVE LsEach(_, _)
LsEach(operands, rf) ==
    IF operands = <<>> THEN [stdout |-> <<>>, stderr |-> <<>>, returncode |-> 0]
    ELSE LET path == Head(operands)
             rest == LsEach(Tail(operands), rf)
         IN  IF IsDir(rf, path)
               THEN [rest EXCEPT
                       !.stdout = LsLines(rf, SetToSeq(Children(rf, path))) \o @]
             ELSE IF IsFile(rf, path)
               THEN [rest EXCEPT !.stdout = path \o <<"NL">> \o @]
             ELSE [rest EXCEPT
                     !.stderr = <<"ls: cannot access '">> \o path \o <<"'", "NL">> \o @,
                     !.returncode = 2]

\* What the remote shell does with a command line.
RemoteRun(command, rf) ==
    LET words == Words(command)
    IN  IF words # <<>> /\ Head(words) = <<"cat">>
          THEN IF Len(words) = 1
                 THEN [kind |-> "timeout"]      \* cat waits for its input
               ELSE [kind |-> "exit"] @@ CatEach(Tail(words), rf)
        ELSE IF Len(words) >= 2 /\ words[1] = <<"ls">> /\ words[2] = <<"-F">>
          THEN [kind |-> "exit"] @@ LsEach(Drop(words, 2), rf)
        ELSE ShellRun(command)

\* str(e) of the exception the transport raises
NetError(net) ==
    IF net = "no_connect" THEN <<"Unable to connect">> ELSE <<"timed out">>

\* the result, and whether a connection was opened and whether it was closed
SshResult(command, net, p) ==
    IF net = "no_connect"
      THEN [res    |-> Result(command, <<>>, NetError(net), -1),
            opened |-> 0, closed |-> 0]
    ELSE IF net = "broken" \/ p.kind # "exit"
      THEN [res    |-> Result(command, <<>>, NetError("broken"), -1),
            opened |-> 1, closed |-> 0]
    ELSE [res    |-> Result(command, Strip(p.stdout), Strip(p.stderr),
                            p.returncode),
          opened |-> 1, closed |-> 1]

_execute_ssh(command, net, rf) == SshResult(command, net, RemoteRun(command, rf))

\* sftp.open(path, 'w') and f.write(content) on the remote host: the result,
\* the remote file system after it, and the connection
\* sftp.open(path, 'w') succeeds: the file can be created in an existing
\* directory (no directory is made on the remote host)
SftpWritable(path, rf) ==
    /\ path # <<>>
    /\ ~IsDir(rf, path)
    /\ (DirName(path) = <<>> \/ IsDir(rf, DirName(path)))

SftpWrite(path, content, net, rf) ==
    IF net = "no_connect"
      THEN [res |-> Result(WriteCommand(path), <<>>, NetError(net), 1), rfs |-> rf,
            opened |-> 0, closed |-> 0]
    ELSE IF net = "broken" \/ ~SftpWritable(path, rf)
      THEN [res |-> Result(WriteCommand(path), <<>>,
                           IF net = "broken" THEN NetError(net)
                           ELSE <<"[Errno 2] No such file">>, 1),
            rfs |-> rf, opened |-> 1, closed |-> 0]
    ELSE [res |-> Result(WriteCommand(path),
                         <<"File '">> \o path \o <<"' written successfully.">>,
                         <<>>, 0),
          rfs |-> Put(rf, path, File(content)), opened |-> 1, closed |-> 1]

(***************************************************************************)
(* Executor.                                                               *)
(***************************************************************************)
\* the <<CONTENT and CONTENT markers are stripped from the content
StripMarkers(content) ==
    LET c1 == IF StartsWith(content, <<"<<CONTENT", "NL">>)
              THEN Drop(content, 2) ELSE content
    IN  IF EndsWith(c1, <<"NL", "CONTENT">>)
        THEN SubSeq(c1, 1, Len(c1) - 2) ELSE c1

\* path, content = args.split('\n', 1) and what follows it; the unpacking
\* raises ValueError when args holds no "\n"
ParseWrite(args) ==
    LET parts == SplitNL1(args)
    IN  IF Len(parts) < 2 THEN [ok |-> FALSE]
        ELSE [ok |-> TRUE, path |-> Strip(parts[1]),
              content |-> StripMarkers(parts[2])]

\* command_type and args of a directive that is not blank
CommandType(full_command) == Upper(SplitMax1(full_command)[1])
Args(full_command) ==
    LET parts == SplitMax1(full_command)
    IN  IF Len(parts) > 1 THEN parts[2] ELSE <<>>

Raised(exception) == [raised |-> exception]

\* what one call leaves behind: its result (or the exception it raises), the
\* two file systems, the backend that ran the directive, and the connection
Outcome(res, f, rf, backend, opened, closed) ==
    [res |-> res, fs |-> f, rfs |-> rf, backend |-> backend,
     opened |-> opened, closed |-> closed]

Local(res, f, rf) == Outcome(res, f, rf, "local", 0, 0)

Remote(r, f, rf) == Outcome(r.res, f, rf, "remote", r.opened, r.closed)

\* the else branch of execute_command
LegacyShell(full_command, ssh_creds, net, f, rf) ==
    Local(_execute_shell(full_command), f, rf)

RemoteWrite(r, f) == Remote(r, f, r.rfs)
LocalWrite(r, rf) == Local(r.res, r.fs, rf)

\* the WRITE_FILE branch, w being the parse of args
WriteBranch(w, args, ssh_creds, net, f, rf) ==
    IF ssh_creds
    THEN IF ~w.ok
           THEN Outcome(Raised("ValueError"), f, rf, "none", 0, 0)
         ELSE RemoteWrite(SftpWrite(w.path, w.content, net, rf), f)
    ELSE IF ~w.ok
           THEN Outcome(
                  Result(<<"WRITE_FILE", "SP">> \o args, <<>>,
                         <<"Invalid WRITE_FILE format. Missing path or content.">>,
                         1), f, rf, "none", 0, 0)
         ELSE LocalWrite(_write_file(w.path, w.content, f), rf)

ListPath(args) == IF args # <<>> THEN args ELSE <<".">>

\* the branches on command_type
Dispatch(command_type, args, full_command, ssh_creds, net, f, rf) ==
    CASE command_type = <<"SHELL">> ->
           IF ssh_creds THEN Remote(_execute_ssh(args, net, rf), f, rf)
           ELSE Local(_execute_shell(args), f, rf)
      [] command_type = <<"READ_FILE">> ->
           IF ssh_creds
           THEN Remote(_execute_ssh(<<"cat", "SP">> \o args, net, rf), f, rf)
           ELSE Local(_read_file(args, f), f, rf)
      [] command_type = <<"WRITE_FILE">> ->
           WriteBranch(ParseWrite(args), args, ssh_creds, net, f, rf)
      [] command_type = <<"LIST_FILES">> ->
           IF ssh_creds
           THEN Remote(_execute_ssh(<<"ls", "SP", "-F", "SP">> \o ListPath(args),
                                    net, rf), f, rf)
           ELSE Local(_list_files(ListPath(args), f), f, rf)
      [] OTHER -> LegacyShell(full_command, ssh_creds, net, f, rf)

execute_command(full_command, ssh_creds, net, f, rf) ==
    IF Strip(full_command) = <<>>
      THEN Outcome([stdout |-> <<>>, stderr |-> <<"Empty command.">>,
                    returncode |-> 1], f, rf, "none", 0, 0)
    ELSE Dispatch(CommandType(full_command), Args(full_command), full_command,
                  ssh_creds, net, f, rf)

(***************************************************************************)
(* Inputs.                                                                 *)
(***************************************************************************)
Paths        == {<<"f">>, <<"d">>, <<"d/g">>}
ContentAtoms == {"a", "NL", "CR", "<<CONTENT", "CONTENT"}
Contents     == SeqsUpTo(ContentAtoms, MaxContentLen)

\* The directive text protocol for WRITE_FILE: the path line, a line
\* <<CONTENT, the content, a line CONTENT.  Empty content is also written as
\* a block with no line between the two markers.
Blocks(content) ==
    {<<"<<CONTENT", "NL">> \o content \o <<"NL", "CONTENT">>}
      \cup (IF content = <<>> THEN {<<"<<CONTENT", "NL", "CONTENT">>} ELSE {})

Delimited(path, content) ==
    {<<"WRITE_FILE", "SP">> \o path \o <<"NL">> \o b : b \in Blocks(content)}

ReadDirective(path) == <<"READ_FILE", "SP">> \o path

\* every content is written to f, delimited; the other paths and the form
\* without markers get a few contents
WriteDirectives ==
    UNION {Delimited(<<"f">>, content) : content \in Contents}
      \cup UNION {Delimited(path, <<"a">>) : path \in Paths}
      \cup {<<"Write_File", "SP", "f", "NL">> \o content :
               content \in {<<>>, <<"a">>, <<"<<CONTENT", "NL", "a">>,
                            <<"a", "NL", "CONTENT">>}}
      \cup {<<"WRITE_FILE">>, <<"WRITE_FILE", "SP", "f">>,
            <<"WRITE_FILE", "SP", "f", "SP", "a">>,
            <<"WRITE_FILE", "SP", "NL", "<<CONTENT", "NL", "a", "NL", "CONTENT">>}

ReadDirectives ==
    {ReadDirective(path) : path \in Paths}
      \cup {<<"READ_FILE">>, <<"read_file", "SP", "f", "SP">>,
            <<"READ_FILE", "SP", "nope">>}

ListDirectives ==
    {<<"LIST_FILES">>, <<"LIST_FILES", "SP", ".">>, <<"list_files", "SP", "d">>,
     <<"LIST_FILES", "SP", "f">>, <<"LIST_FILES", "SP", "nope">>}

ShellDirectives ==
    {<<"SHELL">>, <<"SHELL", "SP", "echo", "SP", "hi">>, <<"shell", "SP", "false">>,
     <<"SHELL", "SP", "sleep">>, <<"SHELL", "SP", "NUL">>}

OtherDirectives ==
    {<<"echo", "SP", "hi">>, <<"false">>, <<"sleep">>, <<"TASK_COMPLETE">>,
     <<"task_complete", "SP", "now">>, <<"SHELLa">>}

BlankDirectives == {<<>>, <<"SP">>, <<"NL", "SP">>}

Directives ==
    WriteDirectives \cup ReadDirectives \cup ListDirectives
      \cup ShellDirectives \cup OtherDirectives \cup BlankDirectives

FsEmpty == <<>>
FsSome  == (<<"f">> :> File(<<"old">>)) @@ (<<"d">> :> Dir)
             @@ (<<"d/g">> :> File(<<"a", "NL">>))
InitialFs == {FsEmpty, FsSome}

(***************************************************************************)
(* Values of the variables of a part of the program that is not running.   *)
(***************************************************************************)
NoCall  == [called |-> FALSE]
NoBatch == [called |-> FALSE]

ExecIdle  == last = NoCall /\ ncalls = 0 /\ conns = 0
BatchIdle == batch = NoBatch
MultiIdle == sessions = <<>>
StandardIdle ==
    chat_data = <<>> /\ callbacks = <<>> /\ runs = <<>> /\ proposals = <<>>
SessionIdle ==
    /\ tasks = <<>>
    /\ planner = [stop_at |-> 0]
    /\ pc = "idle"
    /\ i = 0
    /\ task_id = 0
    /\ history = <<>>
    /\ last_command_output = "None"
    /\ command_to_execute = <<>>
    /\ full_log = <<>>
    /\ planner_calls = 0
    /\ executions = 0
    /\ in_flight = 0
    /\ requests = <<>>

(***************************************************************************)
(* A caller of execute_command: any directive, with or without a           *)
(* credential, whatever the transport does, one call after the other.      *)
(***************************************************************************)
\* the call returns (or raises) with outcome o
Returns(o, full_command, ssh_creds, net) ==
    /\ last' = [called |-> TRUE, full_command |-> full_command,
                ssh_creds |-> ssh_creds, net |-> net, res |-> o.res,
                backend |-> o.backend, opened |-> o.opened,
                closed |-> o.closed]
    /\ fs' = o.fs
    /\ rfs' = o.rfs
    /\ ncalls' = ncalls + 1
    /\ conns' = conns + o.opened - o.closed
    /\ UNCHANGED <<batch_vars, session_vars, multi_vars, standard_vars>>

ExecuteCommand(full_command, ssh_creds, net) ==
    /\ ncalls < MaxCalls
    /\ Returns(execute_command(full_command, ssh_creds, net, fs, rfs),
               full_command, ssh_creds, net)

ExecInit ==
    /\ fs \in InitialFs
    /\ rfs \in InitialFs
    /\ ExecIdle /\ BatchIdle /\ SessionIdle /\ MultiIdle /\ StandardIdle

ExecNext ==
    \E full_command \in Directives, ssh_creds \in BOOLEAN, net \in Net :
        /\ (~ssh_creds => net = "ok")
        /\ ExecuteCommand(full_command, ssh_creds, net)

SpecExec == ExecInit /\ [][ExecNext]_vars

(***************************************************************************)
(* Batch runner: execute_commands.                                         *)
(***************************************************************************)
\* results.append(execute_command(command, ssh_creds)): the state of the
\* loop after a call with outcome o; an exception ends the loop
Appended(acc, o) ==
    IF "raised" \in DOMAIN o.res
    THEN [acc EXCEPT !.raised = TRUE]
    ELSE [results |-> Append(acc.results, o.res), fs |-> o.fs, rfs |-> o.rfs,
          leaked |-> acc.leaked + o.opened - o.closed, raised |-> FALSE]

\* a loop body that drops blank directives instead of recording their result
RunOneSkippingBlank(command, ssh_creds, net, acc) ==
    IF Strip(command) = <<>> THEN acc
    ELSE Appended(acc, execute_command(command, ssh_creds, net, acc.fs, acc.rfs))

\* the loop body for one command
RunOne(command, ssh_creds, net, acc) ==
    Appended(acc, execute_command(command, ssh_creds, net, acc.fs, acc.rfs))

\* for command in commands
RECURSIVE RunAll(_, _, _, _)
RunAll(commands, ssh_creds, nets, acc) ==
    IF commands = <<>> \/ acc.raised THEN acc
    ELSE RunAll(Tail(commands), ssh_creds, Tail(nets),
                RunOne(Head(commands), ssh_creds, Head(nets), acc))

execute_commands(commands, ssh_creds, nets, f, rf) ==
    RunAll(commands, ssh_creds, nets,
           [results |-> <<>>, fs |-> f, rfs |-> rf, leaked |-> 0,
            raised |-> FALSE])

BatchDirectives ==
    {<<>>, <<"SP">>,
     <<"WRITE_FILE", "SP", "f", "NL", "<<CONTENT", "NL", "a", "NL", "CONTENT">>,
     <<"READ_FILE", "SP", "f">>,
     <<"WRITE_FILE", "SP", "f">>}

\* execute_commands returns (or raises) with final loop state r
BatchReturns(r, commands, ssh_creds) ==
    /\ batch' = [called |-> TRUE, commands |-> commands, ssh_creds |-> ssh_creds,
                 results |-> r.results, raised |-> r.raised]
    /\ fs' = r.fs
    /\ rfs' = r.rfs
    /\ conns' = conns + r.leaked
    /\ UNCHANGED <<last, ncalls, session_vars, multi_vars, standard_vars>>

\* a caller of execute_commands: any list of directives
ExecuteCommands(commands, ssh_creds, nets) ==
    /\ ~batch.called
    /\ BatchReturns(execute_commands(commands, ssh_creds, nets, fs, rfs),
                    commands, ssh_creds)

BatchInit ==
    /\ fs \in InitialFs
    /\ rfs = FsEmpty
    /\ ExecIdle /\ BatchIdle /\ SessionIdle /\ MultiIdle /\ StandardIdle

BatchNext ==
    \E commands \in SeqsUpTo(BatchDirectives, MaxBatch), ssh_creds \in BOOLEAN :
        \E nets \in [1..Len(commands) -> IF ssh_creds THEN Net ELSE {"ok"}] :
            ExecuteCommands(commands, ssh_creds, nets)

SpecBatch == BatchInit /\ [][BatchNext]_vars

(***************************************************************************)
(* Persistence layer: the table tasks.  A task's id is its row number.     *)
(***************************************************************************)
\* json.dumps: the serialised form of a value, from which the value is read
\* back unchanged
JsonDumps(value) == [json |-> value]

\* the value of a column that was never written
Null == [null |-> TRUE]

create_task(table, project_id, description, plan) ==
    Append(table, [project_id |-> project_id, description |-> description,
                   plan |-> plan, execution_log |-> Null,
                   status |-> "pending"])

\* the completed tasks of a project, in row order (ORDER BY created_at)
RECURSIVE SelectCompleted(_, _)
SelectCompleted(table, project_id) ==
    IF table = <<>> THEN <<>>
    ELSE LET row == table[Len(table)]
             before == SelectCompleted(SubSeq(table, 1, Len(table) - 1), project_id)
         IN  IF row.project_id = project_id /\ row.status = "completed"
             THEN Append(before, [description |-> row.description,
                                  plan |-> row.plan,
                                  execution_log |-> row.execution_log,
                                  status |-> row.status])
             ELSE before

\* a query without the condition on status: every task of the project
SelectAnyStatus(table, project_id) ==
    LET rows == SelectSeq(table, LAMBDA row : row.project_id = project_id)
    IN  [k \in 1..Len(rows) |->
            [description |-> rows[k].description, plan |-> rows[k].plan,
             execution_log |-> rows[k].execution_log,
             status |-> rows[k].status]]

get_project_history(table, project_id) == SelectCompleted(table, project_id)

\* an update that writes the log and leaves the status as it was created
StatusLeftPending == "pending"

\* the status update_task_log stores
StoredStatus == "completed"

update_task_log(table, id, execution_log) ==
    [k \in 1..Len(table) |->
        IF k = id
        THEN [table[k] EXCEPT !.execution_log = execution_log,
                              !.status = StoredStatus]
        ELSE table[k]]

(***************************************************************************)
(* Planner: get_commands.  The text the language model returns is outside  *)
(* the program.  In one session it is fixed by three choices: the call     *)
(* stop_at whose answer is stop_with, a text that ends the session         *)
(* (stop_at = max_steps + 1: no such call), and the program, a list of     *)
(* directives that the other calls go through in turn.                     *)
(***************************************************************************)
max_steps == 20

StopTexts ==
    {<<>>, <<"NL">>, <<"TASK_COMPLETE">>, <<"task_complete">>,
     <<"SP", "TASK_COMPLETE", "NL">>}

Programs ==
    << << <<"SHELL", "SP", "echo", "SP", "hi">> >>,
       << <<"WRITE_FILE", "SP", "f", "NL", "<<CONTENT", "NL", "a", "NL", "CONTENT">>,
          <<"READ_FILE", "SP", "f", "NL">>,
          <<"LIST_FILES">>,
          <<"shell", "SP", "false">>,
          <<"SP", "echo", "SP", "hi">> >>,
       << <<"task_complete", "SP", "now">>,
          <<"WRITE_FILE", "SP", "f">>,
          <<"SHELL", "SP", "sleep">> >> >>

Planners ==
    [stop_at : 1..(max_steps + 1), stop_with : StopTexts,
     program : 1..Len(Programs)]

\* response.text of the n-th call
ModelText(pl, n) ==
    IF n = pl.stop_at THEN pl.stop_with
    ELSE Programs[pl.program][((n - 1) % Len(Programs[pl.program])) + 1]

\* commands = response.text.strip()
get_commands(pl, n) == Strip(ModelText(pl, n))

(***************************************************************************)
(* Session controller: run_programmer_mode_session, one task of the event  *)
(* loop.  pc names the await the coroutine is suspended at; the code       *)
(* between two awaits runs without interruption.                           *)
(***************************************************************************)
ProjectId       == 1
TaskDescription == <<"task">>

Awaits == {"await_step", "await_done", "await_command", "await_report",
           "await_limit"}

InitialTasks ==
    {<<>>,
     <<[project_id |-> ProjectId, description |-> <<"earlier">>,
        plan |-> <<"echo">>, execution_log |-> JsonDumps(<<>>),
        status |-> "completed"],
       [project_id |-> ProjectId, description |-> <<"proposed">>,
        plan |-> <<"echo">>, execution_log |-> Null,
        status |-> "pending"]>>}

\* a comparison with the keyword that does not fold the case
IsCompleteCaseSensitive(command) ==
    command = <<>> \/ Strip(command) = <<"TASK_COMPLETE">>

\* not command_to_execute or command_to_execute.strip().upper() == "TASK_COMPLETE"
IsComplete(command) ==
    command = <<>> \/ Upper(Strip(command)) = <<"TASK_COMPLETE">>

\* a range that is one pass too long
InRangeOneMore(n) == n <= max_steps

\* for i in range(max_steps): the loop body runs for index n
InRange(n) == n < max_steps

\* a rendering that names the command and leaves out what it gave
RenderCommandOnly(result) == <<"Command: ">> \o result.command \o <<"NL">>

\* the text given to the planner as last_command_output
Render(result) ==
    <<"Command: ">> \o result.command
      \o <<"NL", "Return Code: ", ToString(result.returncode), "NL", "STDOUT:", "NL">>
      \o result.stdout \o <<"NL", "STDERR:", "NL">> \o result.stderr \o <<"NL">>

\* a log that keeps the latest result only
KeepLatestOnly(log, result) == <<result>>

\* full_log.append(result)
AppendLog(log, result) == Append(log, result)

\* an entry that records the task's description where the directive belongs
HistoryEntryWithoutDirective(n, command, result) ==
    [description |-> <<"Step ", ToString(n), " of '">> \o TaskDescription \o <<"'">>,
     plan |-> TaskDescription,
     execution_log |-> JsonDumps(result),
     status |-> "completed"]

\* history.append({...}) after step n
HistoryEntry(n, command, result) ==
    [description |-> <<"Step ", ToString(n), " of '">> \o TaskDescription \o <<"'">>,
     plan |-> command,
     execution_log |-> JsonDumps(result),
     status |-> "completed"]

\* the arguments of gemini_client.get_commands(task_description, history,
\* is_programmer_mode=True, last_command_output=last_command_output)
Request(task_description, hist, output) ==
    [task_description |-> task_description, history |-> hist,
     is_programmer_mode |-> TRUE, last_command_output |-> output]

\* the coroutine starts: the history is read, the task row is made, and
\* the first pass of the loop reaches its first await
Start ==
    /\ pc = "created"
    /\ history' = get_project_history(tasks, ProjectId)
    /\ tasks' = create_task(tasks, ProjectId, TaskDescription,
                            <<"Autonomous session">>)
    /\ task_id' = Len(tasks) + 1
    /\ last_command_output' = "None"
    /\ full_log' = <<>>
    /\ i' = 0
    /\ pc' = IF InRange(0) THEN "await_step" ELSE "await_limit"
    /\ UNCHANGED <<fs, rfs, exec_vars, batch_vars, multi_vars,
                   standard_vars, planner, command_to_execute,
                   planner_calls, executions, in_flight, requests>>

\* the planner has answered command
Planned(command) ==
    /\ command_to_execute' = command
    /\ planner_calls' = planner_calls + 1
    /\ pc' = IF IsComplete(command) THEN "await_done" ELSE "await_command"

\* the step message is sent; the planner is asked for the next command
StepReplied ==
    /\ pc = "await_step"
    /\ requests' = Append(requests,
                          Request(TaskDescription, history, last_command_output))
    /\ Planned(get_commands(planner, planner_calls + 1))
    /\ UNCHANGED <<fs, rfs, exec_vars, batch_vars, multi_vars,
                   standard_vars, tasks, planner, i, task_id,
                   history, last_command_output, full_log, executions,
                   in_flight>>

\* the log is stored and the coroutine goes on to send the command message
PersistAndGoOn ==
    /\ tasks' = update_task_log(tasks, task_id, JsonDumps(full_log))
    /\ pc' = "await_command"
    /\ UNCHANGED <<fs, rfs, exec_vars, batch_vars, multi_vars,
                   standard_vars, planner, i, task_id, history,
                   last_command_output, command_to_execute, full_log,
                   planner_calls, executions, in_flight, requests>>

\* db.update_task_log(task_id, json.dumps(full_log, indent=2)); the
\* coroutine ends
PersistAndReturn ==
    /\ tasks' = update_task_log(tasks, task_id, JsonDumps(full_log))
    /\ pc' = "returned"
    /\ UNCHANGED <<fs, rfs, exec_vars, batch_vars, multi_vars,
                   standard_vars, planner, i, task_id, history,
                   last_command_output, command_to_execute, full_log,
                   planner_calls, executions, in_flight, requests>>

\* the completion message is sent
DoneReplied ==
    /\ pc = "await_done"
    /\ PersistAndReturn

\* the command message is sent; execute_command is called
CommandReplied ==
    /\ pc = "await_command"
    /\ pc' = "executing"
    /\ in_flight' = in_flight + 1
    /\ UNCHANGED <<fs, rfs, exec_vars, batch_vars, multi_vars,
                   standard_vars, tasks, planner, i, task_id,
                   history, last_command_output, command_to_execute, full_log,
                   planner_calls, executions, requests>>

\* execute_command has returned with outcome o
Executed(o) ==
    /\ fs' = o.fs
    /\ last_command_output' = Render(o.res)
    /\ full_log' = AppendLog(full_log, o.res)
    /\ executions' = executions + 1
    /\ in_flight' = in_flight - 1
    /\ pc' = "await_report"

\* execute_command(command_to_execute) returns; the session gives it no
\* credential
ExecuteReturns ==
    /\ pc = "executing"
    /\ Executed(execute_command(command_to_execute, FALSE, "ok", fs, rfs))
    /\ UNCHANGED <<rfs, exec_vars, batch_vars, multi_vars,
                   standard_vars, tasks, planner, i, task_id,
                   history, command_to_execute, planner_calls, requests>>

\* the report is sent; the history grows and the loop goes on
ReportReplied ==
    /\ pc = "await_report"
    /\ history' = Append(history,
                         HistoryEntry(i + 1, command_to_execute,
                                      full_log[Len(full_log)]))
    /\ i' = i + 1
    /\ pc' = IF InRange(i + 1) THEN "await_step" ELSE "await_limit"
    /\ UNCHANGED <<fs, rfs, exec_vars, batch_vars, multi_vars,
                   standard_vars, tasks, planner, task_id,
                   last_command_output, command_to_execute, full_log,
                   planner_calls, executions, in_flight, requests>>

\* the step-limit message is sent
LimitReplied ==
    /\ pc = "await_limit"
    /\ PersistAndReturn

\* the task is cancelled: CancelledError is raised at the await the
\* coroutine is suspended at (or the task never starts), and nothing in the
\* coroutine catches it
Cancel ==
    /\ pc \in Awaits \cup {"created"}
    /\ pc' = "cancelled"
    /\ UNCHANGED <<fs, rfs, exec_vars, batch_vars, multi_vars,
                   standard_vars, tasks, planner, i, task_id,
                   history, last_command_output, command_to_execute, full_log,
                   planner_calls, executions, in_flight, requests>>

\* reply_text raises (the message is refused or the network fails), and
\* nothing in the coroutine catches it
ReplyRaises ==
    /\ pc \in Awaits
    /\ pc' = "raised"
    /\ UNCHANGED <<fs, rfs, exec_vars, batch_vars, multi_vars,
                   standard_vars, tasks, planner, i, task_id,
                   history, last_command_output, command_to_execute, full_log,
                   planner_calls, executions, in_flight, requests>>

SessionInit ==
    /\ fs = FsEmpty
    /\ rfs = FsEmpty
    /\ ExecIdle /\ BatchIdle /\ MultiIdle /\ StandardIdle
    /\ tasks \in InitialTasks
    /\ planner \in Planners
    /\ pc = "created"
    /\ i = 0
    /\ task_id = 0
    /\ history = <<>>
    /\ last_command_output = "None"
    /\ command_to_execute = <<>>
    /\ full_log = <<>>
    /\ planner_calls = 0
    /\ executions = 0
    /\ in_flight = 0
    /\ requests = <<>>

SessionNext ==
    \/ Start
    \/ StepReplied
    \/ DoneReplied
    \/ CommandReplied
    \/ ExecuteReturns
    \/ ReportReplied
    \/ LimitReplied
    \/ Cancel
    \/ ReplyRaises

SpecSession == SessionInit /\ [][SessionNext]_vars

(***************************************************************************)
(* Properties of the session controller, checked under SpecSession.        *)
(***************************************************************************)
\* a planner answer that ends the session: empty, or the keyword
\* TASK_COMPLETE once surrounding whitespace is trimmed, in any letter case
SignalsComplete(text) ==
    Strip(text) = <<>> \/ Strip(text) \in {<<"TASK_COMPLETE">>, <<"task_complete">>}

\* the k-th answer of the planner is the first one that ends the session
FirstCompleteAt(k) ==
    /\ SignalsComplete(ModelText(planner, k))
    /\ \A n \in 1..(k - 1) : ~SignalsComplete(ModelText(planner, n))

NeverComplete == \A n \in 1..max_steps : ~SignalsComplete(ModelText(planner, n))

\* the log the persistence layer holds for the session's task
PersistedLog == tasks[task_id].execution_log

\* entry k of the log is the result recorded for step k, whose directive
\* was the k-th answer of the planner
LogInStepOrder ==
    /\ Len(history) >= Len(full_log)
    /\ \A k \in 1..Len(full_log) :
          LET h == history[Len(history) - Len(full_log) + k]
          IN  /\ h.plan = Strip(ModelText(planner, k))
              /\ h.description[2] = ToString(k)
              /\ h.execution_log = JsonDumps(full_log[k])

\* C1: in every reachable state of a session the planner has been called at
\* most max_steps = 20 times, at most max_steps directives have been
\* executed and never more than planner calls were made, and at most one
\* execution is in flight.
C1_SessionBounded ==
    /\ planner_calls <= max_steps
    /\ executions <= max_steps
    /\ executions <= planner_calls
    /\ in_flight <= 1

\* the 20th execution is in flight after 20 planner calls
C1_Witness ==
    planner_calls = max_steps /\ executions = max_steps - 1 /\ in_flight = 1

\* C2: a session whose planner never answers with an empty text or
\* TASK_COMPLETE returns after exactly 20 planner calls and 20 executions,
\* and the log it has persisted holds 20 entries, one per execution in step
\* order.
C2_RunsToCeiling ==
    (pc = "returned" /\ NeverComplete) =>
        /\ planner_calls = max_steps
        /\ executions = max_steps
        /\ PersistedLog = JsonDumps(full_log)
        /\ Len(full_log) = max_steps
        /\ LogInStepOrder

C2_Witness ==
    /\ pc = "returned" /\ NeverComplete
    /\ Len(PersistedLog.json) = max_steps
    /\ PersistedLog.json[max_steps].returncode # 0

\* the session returned because the loop ran out, not because the planner
\* signalled completion
StoppedByLimit == pc = "returned" /\ ~SignalsComplete(command_to_execute)

C4_StopsAtFirstComplete ==
    \A k \in 1..max_steps :
        (pc = "returned" /\ FirstCompleteAt(k)) =>
            /\ planner_calls = k
            /\ executions = k - 1
            /\ tasks[task_id].status = "completed"
            /\ PersistedLog = JsonDumps(full_log)
            /\ Len(full_log) = k - 1
            /\ LogInStepOrder

\* a session ended by a lower-case task_complete, third answer
C4_Witness ==
    /\ pc = "returned"
    /\ FirstCompleteAt(3)
    /\ command_to_execute = <<"task_complete">>
    /\ Len(PersistedLog.json) = 2

\* C9, as claimed: when the task of a session is cancelled, the results
\* accumulated so far are persisted for its task.
C9_CancelPersistsLog ==
    (pc = "cancelled" /\ task_id # 0) => PersistedLog = JsonDumps(full_log)

(***************************************************************************)
(* Properties of the executor, checked under SpecExec.                     *)
(***************************************************************************)
\* C5, as claimed: execute_command returns a result and never raises.
C5_NeverRaises == last.called => "raised" \notin DOMAIN last.res

\* C6, as claimed: a directive that is not blank never runs on the local
\* backend when a credential is given, and never on the remote backend
\* when none is.
C6_RoutedByCredential ==
    (last.called /\ Strip(last.full_command) # <<>>) =>
        /\ last.ssh_creds => last.backend # "local"
        /\ ~last.ssh_creds => last.backend # "remote"

\* C7, as claimed: a call opens at most one connection, and no connection
\* is open when the call has returned.
C7_ConnectionReleased ==
    last.called => (last.opened <= 1 /\ last.closed = last.opened /\ conns = 0)

\* C10, as claimed: a delimited WRITE_FILE of any content to the file f,
\* run locally, followed by READ_FILE f, gives exit code 0 and stdout equal
\* to that content.
C10_WriteThenRead ==
    [][\A content \in Contents :
          ( /\ last.called /\ ~last.ssh_creds
            /\ last.full_command \in Delimited(<<"f">>, content)
            /\ last'.called /\ ~last'.ssh_creds
            /\ last'.full_command = ReadDirective(<<"f">>)
            /\ ncalls' = ncalls + 1 )
          => (last'.res.returncode = 0 /\ last'.res.stdout = content)]_vars

(***************************************************************************)
(* Properties of the batch runner, checked under SpecBatch.                *)
(***************************************************************************)
Blank(command) == Strip(command) = <<>>

RECURSIVE CountNonBlank(_)
CountNonBlank(commands) ==
    IF commands = <<>> THEN 0
    ELSE (IF Blank(Head(commands)) THEN 0 ELSE 1) + CountNonBlank(Tail(commands))

\* C8, as claimed: the list execute_commands returns has one result per
\* directive that is not blank.
C8_BlankSkipped ==
    (batch.called /\ ~batch.raised) =>
        Len(batch.results) = CountNonBlank(batch.commands)

\* C8, amended: the list execute_commands returns has one result per
\* directive, blank ones included, in the order of the directives: a blank
\* directive gives the result "Empty command." with return code 1, any
\* other directive a result whose command field is the one execute_command
\* gives that directive.
C8_OneResultPerDirective ==
    (batch.called /\ ~batch.raised) =>
        /\ Len(batch.results) = Len(batch.commands)
        /\ \A k \in 1..Len(batch.commands) :
              IF Blank(batch.commands[k])
              THEN batch.results[k] = [stdout |-> <<>>,
                                       stderr |-> <<"Empty command.">>,
                                       returncode |-> 1]
              ELSE /\ "command" \in DOMAIN batch.results[k]
                   /\ batch.results[k].command =
                        execute_command(batch.commands[k], batch.ssh_creds, "ok",
                                        FsEmpty, FsEmpty).res.command

\* a list with a blank directive between a write and a read of the file
C8_Witness ==
    /\ batch.called /\ ~batch.raised
    /\ Len(batch.commands) = 3
    /\ ~Blank(batch.commands[1]) /\ Blank(batch.commands[2])
    /\ batch.results[3].returncode = 0
    /\ batch.results[3].stdout = <<"a">>
    /\ Len(batch.results) = 3

(***************************************************************************)
(* Further properties of the executor, checked under SpecExec.             *)
(***************************************************************************)
\* WRITE_FILE directives with no path, or with no line break between the
\* path and the content
MalformedWrites ==
    {<<"WRITE_FILE">>, <<"WRITE_FILE", "SP", "f">>,
     <<"WRITE_FILE", "SP", "f", "SP", "a">>,
     <<"WRITE_FILE", "SP", "NL", "<<CONTENT", "NL", "a", "NL", "CONTENT">>}

\* C11, as claimed: a call of execute_command with a malformed WRITE_FILE
\* directive, with or without a credential, returns a result (it does not
\* raise) whose return code is not 0 and whose stderr is not empty, and
\* leaves both file systems as they were.
C11_MalformedWriteRejected ==
    [][( /\ last'.called /\ ncalls' = ncalls + 1
         /\ last'.full_command \in MalformedWrites )
       => ( /\ "raised" \notin DOMAIN last'.res
            /\ last'.res.returncode # 0
            /\ last'.res.stderr # <<>>
            /\ fs' = fs /\ rfs' = rfs )]_vars

(***************************************************************************)
(* Further properties of the session controller, checked under SpecSession.*)
(***************************************************************************)
\* C12, as claimed: the session never hands to execute_command a planner
\* answer whose first word is TASK_COMPLETE in any letter case, whether or
\* not text follows the word.
C12_CompleteNeverExecuted ==
    pc = "executing" => CommandType(command_to_execute) # <<"TASK_COMPLETE">>

(***************************************************************************)
(* A caller of execute_command that gives it Shell and Unrecognized        *)
(* directives only, with or without a credential.                          *)
(***************************************************************************)
ScriptDirectives == ShellDirectives \cup OtherDirectives

ScriptsNext ==
    \E full_command \in ScriptDirectives, ssh_creds \in BOOLEAN, net \in Net :
        /\ (~ssh_creds => net = "ok")
        /\ ExecuteCommand(full_command, ssh_creds, net)

SpecScripts == ExecInit /\ [][ScriptsNext]_vars

(***************************************************************************)
(* Timeouts, checked under SpecScripts, and transport failures, checked    *)
(* under SpecExec.                                                         *)
(***************************************************************************)
\* the script a Shell or Unrecognized directive hands to _execute_shell
LocalScript(full_command) ==
    IF CommandType(full_command) = <<"SHELL">> THEN Args(full_command)
    ELSE full_command

\* the directive is a Shell or an Unrecognized one
RunsScript(full_command) ==
    /\ Strip(full_command) # <<>>
    /\ CommandType(full_command) \notin
         {<<"READ_FILE">>, <<"WRITE_FILE">>, <<"LIST_FILES">>}

C14_TransportFailureIsMinusOne ==
    ( /\ last.called /\ last.backend = "remote"
      /\ last.net # "ok" /\ "raised" \notin DOMAIN last.res )
    => ( /\ last.res.returncode = -1
         /\ last.res.stderr = NetError(last.net) )

\* C15, as claimed: a call with a directive that is not blank never raises,
\* and the first word of the directive, in any letter case, decides what
\* runs: after SHELL the rest of the text is the script; with READ_FILE,
\* WRITE_FILE or LIST_FILES the local backend reports that operation;
\* TASK_COMPLETE runs nothing; and with any other first word the whole
\* text, that word included, is the script.
C15_ParsedByFirstToken ==
    (last.called /\ Strip(last.full_command) # <<>>) =>
        /\ "raised" \notin DOMAIN last.res
        /\ CASE CommandType(last.full_command) = <<"SHELL">> ->
                  last.res.command = Args(last.full_command)
             [] CommandType(last.full_command) = <<"TASK_COMPLETE">> ->
                  last.backend = "none"
             [] CommandType(last.full_command) \in
                  {<<"READ_FILE">>, <<"WRITE_FILE">>, <<"LIST_FILES">>} ->
                  (last.backend = "local" =>
                     <<Head(last.res.command)>> = CommandType(last.full_command))
             [] OTHER ->
                  last.res.command = last.full_command

(***************************************************************************)
(* How a session ends, checked under SpecSession.                          *)
(***************************************************************************)
\* the coroutine has ended, in whatever way
Stopped == pc \in {"returned", "cancelled", "raised"}

\* C16, as claimed: a session ends by returning (completion or step
\* ceiling) or by cancellation, never by an exception, and whenever it has
\* ended after its task row was made, the log accumulated so far is the
\* log stored for its task.
C16_StopsDeliverLog ==
    Stopped =>
        /\ pc # "raised"
        /\ task_id # 0 => PersistedLog = JsonDumps(full_log)

(***************************************************************************)
(* Local and remote file operations compared, checked under SpecExec.      *)
(***************************************************************************)
\* the same directive run the other way (with a credential if the call had
\* none, without one if it had), on the file systems f and rf
OtherWay(call, f, rf) ==
    execute_command(call.full_command, ~call.ssh_creds, "ok", f, rf)

\* the directive reads a file that exists, or lists a directory that exists
ReadsExisting(full_command, f) ==
    /\ Strip(full_command) # <<>>
    /\ \/ /\ CommandType(full_command) = <<"READ_FILE">>
          /\ IsFile(f, Args(full_command))
       \/ /\ CommandType(full_command) = <<"LIST_FILES">>
          /\ IsDir(f, ListPath(Args(full_command)))

\* C20, as claimed: when the local and the remote file system hold the same
\* files, a READ_FILE of a file that exists or a LIST_FILES of a directory
\* that exists gives the same stdout and the same return code with a
\* credential (the transport working) as without.
C20_RemoteMatchesLocal ==
    [][( /\ fs = rfs
         /\ last'.called /\ ncalls' = ncalls + 1
         /\ last'.net = "ok"
         /\ ReadsExisting(last'.full_command, fs) )
       => ( /\ last'.res.stdout = OtherWay(last', fs, rfs).res.stdout
            /\ last'.res.returncode = OtherWay(last', fs, rfs).res.returncode )]_vars

(***************************************************************************)
(* What the planner is given, checked under SpecSession.                   *)
(***************************************************************************)
\* the labeled block of a result: its command, return code, stdout and
\* stderr, each under its label
LabeledBlock(result) ==
    <<"Command: ">> \o result.command \o <<"NL">>
      \o <<"Return Code: ", ToString(result.returncode), "NL">>
      \o <<"STDOUT:", "NL">> \o result.stdout \o <<"NL">>
      \o <<"STDERR:", "NL">> \o result.stderr \o <<"NL">>

DurableAtStart == get_project_history(SubSeq(tasks, 1, task_id - 1), ProjectId)

\* the synthetic entry of step k has the directive of the step as plan, the
\* result of the step as execution_log and the status completed
IsSyntheticEntry(entry, k) ==
    /\ entry.plan = get_commands(planner, k)
    /\ entry.execution_log = JsonDumps(full_log[k])
    /\ entry.status = "completed"

MaxSessions == 2
SessionIds  == 1..MaxSessions

\* update.message.text of the message that started session s
TaskOf(s) == <<"task", ToString(s)>>

local_vars == <<planner, pc, i, task_id, history, last_command_output,
                command_to_execute, full_log, planner_calls, executions,
                in_flight, requests>>

\* the planners of the sessions: two that end a session early, and one that
\* never ends it.  The first session has the second or the third, the
\* second session one of the early ones, any further session the first.
ShortPlanners ==
    {[stop_at |-> 2, stop_with |-> <<"TASK_COMPLETE">>, program |-> 1],
     [stop_at |-> 3, stop_with |-> <<>>, program |-> 2]}
LongPlanner ==
    [stop_at |-> max_steps + 1, stop_with |-> <<"TASK_COMPLETE">>, program |-> 3]
PlannersOf(s) ==
    IF s = 1 THEN {p \in ShortPlanners : p.program = 2} \cup {LongPlanner}
    ELSE IF s = 2 THEN ShortPlanners
    ELSE {p \in ShortPlanners : p.program = 1}

\* the locals of a coroutine that has been created and has not run yet
NewSession(s, pl) ==
    [planner |-> pl, task_description |-> TaskOf(s), pc |-> "created",
     i |-> 0, task_id |-> 0, history |-> <<>>, last_command_output |-> "None",
     command_to_execute |-> <<>>, full_log |-> <<>>, planner_calls |-> 0,
     executions |-> 0, in_flight |-> 0, requests |-> <<>>]

\* execute_command is a synchronous call: while one coroutine is in it, the
\* event loop runs no other
LoopFree(s) == \A t \in SessionIds \ {s} : sessions[t].pc # "executing"

\* a list that all sessions append to
SharedLog(all, s) == all[1].full_log

\* full_log of session s, a local of its coroutine
OwnLog(all, s) == all[s].full_log

\* the coroutine of session s starts: history, task row, first pass
StartOf(s) ==
    /\ sessions[s].pc = "created" /\ LoopFree(s)
    /\ sessions' = [sessions EXCEPT ![s] =
          [@ EXCEPT !.history = get_project_history(tasks, ProjectId),
                    !.task_id = Len(tasks) + 1,
                    !.pc = IF InRange(0) THEN "await_step" ELSE "await_limit"]]
    /\ tasks' = create_task(tasks, ProjectId, sessions[s].task_description,
                            <<"Autonomous session">>)
    /\ UNCHANGED <<fs, rfs, exec_vars, batch_vars, standard_vars,
                   local_vars>>

\* the step message of session s is sent; its planner is asked
StepRepliedOf(s) ==
    /\ sessions[s].pc = "await_step" /\ LoopFree(s)
    /\ sessions' = [sessions EXCEPT ![s] =
          [@ EXCEPT !.requests =
                      Append(@, Request(sessions[s].task_description,
                                        sessions[s].history,
                                        sessions[s].last_command_output)),
                    !.command_to_execute =
                      get_commands(sessions[s].planner,
                                   sessions[s].planner_calls + 1),
                    !.planner_calls = @ + 1,
                    !.pc = IF IsComplete(get_commands(sessions[s].planner,
                                                      sessions[s].planner_calls + 1))
                           THEN "await_done" ELSE "await_command"]]
    /\ UNCHANGED <<fs, rfs, tasks, exec_vars, batch_vars, standard_vars,
                   local_vars>>

\* session s stores its log and returns
PersistAndReturnOf(s) ==
    /\ tasks' = update_task_log(tasks, sessions[s].task_id,
                                JsonDumps(sessions[s].full_log))
    /\ sessions' = [sessions EXCEPT ![s].pc = "returned"]
    /\ UNCHANGED <<fs, rfs, exec_vars, batch_vars, standard_vars,
                   local_vars>>

DoneRepliedOf(s) ==
    /\ sessions[s].pc = "await_done" /\ LoopFree(s)
    /\ PersistAndReturnOf(s)

LimitRepliedOf(s) ==
    /\ sessions[s].pc = "await_limit" /\ LoopFree(s)
    /\ PersistAndReturnOf(s)

\* the command message of session s is sent; execute_command is called
CommandRepliedOf(s) ==
    /\ sessions[s].pc = "await_command" /\ LoopFree(s)
    /\ sessions' = [sessions EXCEPT ![s].pc = "executing",
                                    ![s].in_flight = @ + 1]
    /\ UNCHANGED <<fs, rfs, tasks, exec_vars, batch_vars, standard_vars,
                   local_vars>>

\* execute_command has returned to session s with outcome o
ExecutedOf(s, o) ==
    /\ fs' = o.fs
    /\ sessions' = [sessions EXCEPT ![s] =
          [@ EXCEPT !.last_command_output = Render(o.res),
                    !.full_log = AppendLog(OwnLog(sessions, s), o.res),
                    !.executions = @ + 1,
                    !.in_flight = @ - 1,
                    !.pc = "await_report"]]

ExecuteReturnsOf(s) ==
    /\ sessions[s].pc = "executing"
    /\ ExecutedOf(s, execute_command(sessions[s].command_to_execute, FALSE, "ok",
                                     fs, rfs))
    /\ UNCHANGED <<rfs, tasks, exec_vars, batch_vars, standard_vars,
                   local_vars>>

\* the history entry session s appends after step n
HistoryEntryOf(s, n) ==
    [HistoryEntry(n, sessions[s].command_to_execute,
                  sessions[s].full_log[Len(sessions[s].full_log)])
       EXCEPT !.description =
                <<"Step ", ToString(n), " of '">> \o sessions[s].task_description
                  \o <<"'">>]

\* the report of session s is sent; its history grows, its loop goes on
ReportRepliedOf(s) ==
    /\ sessions[s].pc = "await_report" /\ LoopFree(s)
    /\ sessions' = [sessions EXCEPT ![s] =
          [@ EXCEPT !.history = Append(@, HistoryEntryOf(s, sessions[s].i + 1)),
                    !.i = @ + 1,
                    !.pc = IF InRange(sessions[s].i + 1) THEN "await_step"
                           ELSE "await_limit"]]
    /\ UNCHANGED <<fs, rfs, tasks, exec_vars, batch_vars, standard_vars,
                   local_vars>>

\* session s is cancelled, or its reply_text raises, at an await: the
\* coroutine ends there and its locals are gone
AbortedOf(s) ==
    /\ sessions[s].pc \in Awaits \cup {"created"} /\ LoopFree(s)
    /\ sessions' = [sessions EXCEPT ![s] =
          [NewSession(s, sessions[s].planner) EXCEPT !.pc = "aborted"]]
    /\ UNCHANGED <<fs, rfs, tasks, exec_vars, batch_vars, standard_vars,
                   local_vars>>

\* handle_message has created the tasks of the sessions
SessionsInit ==
    /\ fs = FsEmpty
    /\ rfs = FsEmpty
    /\ ExecIdle /\ BatchIdle /\ StandardIdle
    /\ tasks \in InitialTasks
    /\ planner = [stop_at |-> 0]
    /\ pc = "idle"
    /\ i = 0
    /\ task_id = 0
    /\ history = <<>>
    /\ last_command_output = "None"
    /\ command_to_execute = <<>>
    /\ full_log = <<>>
    /\ planner_calls = 0
    /\ executions = 0
    /\ in_flight = 0
    /\ requests = <<>>
    /\ sessions \in {[s \in SessionIds |-> NewSession(s, pls[s])] :
                       pls \in {q \in [SessionIds -> ShortPlanners \cup {LongPlanner}] :
                                  \A s \in SessionIds : q[s] \in PlannersOf(s)}}

SessionsNext ==
    \E s \in SessionIds :
        \/ StartOf(s)
        \/ StepRepliedOf(s)
        \/ DoneRepliedOf(s)
        \/ CommandRepliedOf(s)
        \/ ExecuteReturnsOf(s)
        \/ ReportRepliedOf(s)
        \/ LimitRepliedOf(s)
        \/ AbortedOf(s)

SpecSessions == SessionsInit /\ [][SessionsNext]_vars

(***************************************************************************)
(* Properties of sessions side by side, checked under SpecSessions.        *)
(***************************************************************************)
\* the command field of the result of the k-th directive of session s
OwnCommand(s, k) ==
    execute_command(get_commands(sessions[s].planner, k), FALSE, "ok",
                    FsEmpty, FsEmpty).res.command

\* the history of the n-th planner call of session s is the history of the
\* call before it followed by the entry of its own step n - 1: its
\* directive as plan, its result as execution_log
OwnHistory(s, n) ==
    n > 1 =>
      /\ Len(sessions[s].requests[n].history)
           = Len(sessions[s].requests[n - 1].history) + 1
      /\ SubSeq(sessions[s].requests[n].history, 1,
                Len(sessions[s].requests[n - 1].history))
           = sessions[s].requests[n - 1].history
      /\ sessions[s].requests[n]
           .history[Len(sessions[s].requests[n].history)].plan
           = get_commands(sessions[s].planner, n - 1)
      /\ sessions[s].requests[n]
           .history[Len(sessions[s].requests[n].history)].execution_log
           = JsonDumps(sessions[s].full_log[n - 1])

BetweenMarkers(text) ==
    IF text = <<"<<CONTENT", "NL", "CONTENT">> THEN <<>>
    ELSE IF /\ Len(text) >= 4
            /\ StartsWith(text, <<"<<CONTENT", "NL">>)
            /\ EndsWith(text, <<"NL", "CONTENT">>)
      THEN SubSeq(text, 3, Len(text) - 2)
    ELSE text

\* C21, as claimed: after a local WRITE_FILE that succeeded, the file named
\* by the trimmed first line of the directive's remainder holds the text
\* between the two marker lines when the rest of the remainder has both,
\* and the rest of the remainder unaltered when it lacks either.
C21_ContentBetweenMarkers ==
    ( /\ last.called /\ ~last.ssh_creds
      /\ Strip(last.full_command) # <<>>
      /\ CommandType(last.full_command) = <<"WRITE_FILE">>
      /\ last.res.returncode = 0 )
    => ( /\ Len(SplitNL1(Args(last.full_command))) = 2
         /\ IsFile(fs, Strip(SplitNL1(Args(last.full_command))[1]))
         /\ fs[Strip(SplitNL1(Args(last.full_command))[1])].data
              = BetweenMarkers(SplitNL1(Args(last.full_command))[2]) )

(***************************************************************************)
(* A caller that reads, lists and writes files, one call after the other.  *)
(***************************************************************************)
FileDirectives ==
    ReadDirectives \cup ListDirectives
      \cup UNION {Delimited(path, <<"a">>) : path \in Paths}

FilesNext ==
    \E full_command \in FileDirectives, ssh_creds \in BOOLEAN, net \in Net :
        /\ (~ssh_creds => net = "ok")
        /\ ExecuteCommand(full_command, ssh_creds, net)

SpecFiles == ExecInit /\ [][FilesNext]_vars

\* the last call ran the directive of type t on the host
LocalCall(t) ==
    /\ last.called /\ ~last.ssh_creds
    /\ Strip(last.full_command) # <<>>
    /\ CommandType(last.full_command) = <<t>>

\* text.split("\n"), no line for the empty text
RECURSIVE SplitLines(_)
SplitLines(text) ==
    IF text = <<>> THEN <<>>
    ELSE IF FirstNL(text) = 0 THEN <<text>>
    ELSE <<SubSeq(text, 1, FirstNL(text) - 1)>>
           \o (IF FirstNL(text) = Len(text) THEN <<<<>>>>
               ELSE SplitLines(Drop(text, FirstNL(text))))

\* C22: a local LIST_FILES whose directory exists returns exit code 0 and
\* one stdout line per direct child of that directory, the lines being
\* exactly the children's names; without a path the directory is ".".
C22_ListsDirectChildren ==
    ( /\ LocalCall("LIST_FILES")
      /\ IsDir(fs, IF Args(last.full_command) = <<>> THEN <<".">>
                   ELSE Args(last.full_command)) )
    => ( /\ last.res.returncode = 0
         /\ Range(SplitLines(last.res.stdout))
              = {BaseName(q) : q \in Children(fs,
                    IF Args(last.full_command) = <<>> THEN <<".">>
                    ELSE Args(last.full_command))}
         /\ Len(SplitLines(last.res.stdout))
              = Cardinality(Children(fs,
                    IF Args(last.full_command) = <<>> THEN <<".">>
                    ELSE Args(last.full_command))) )

\* LIST_FILES without a path has listed a current directory that holds a
\* file and a directory with an entry of its own
C22_Witness ==
    /\ LocalCall("LIST_FILES")
    /\ Args(last.full_command) = <<>>
    /\ IsFile(fs, <<"d/g">>) /\ IsFile(fs, <<"f">>)
    /\ last.res.returncode = 0
    /\ Range(SplitLines(last.res.stdout)) = {<<"f">>, <<"d">>}


\* the target of a READ_FILE or LIST_FILES directive is absent or is of the
\* wrong kind for it
TargetMissing(full_command, f) ==
    IF CommandType(full_command) = <<"READ_FILE">>
    THEN ~IsFile(f, Args(full_command))
    ELSE ~IsDir(f, IF Args(full_command) = <<>> THEN <<".">>
                   ELSE Args(full_command))

\* C23: a local READ_FILE or LIST_FILES call leaves the file systems as they
\* were, whether it succeeds or fails, and when its path is missing or cannot
\* be read it returns exit code 1, a non-empty stderr and an empty stdout.
C23_ReadOnlyAndFailsWithOne ==
    [][ ( /\ ncalls' = ncalls + 1
          /\ ~last'.ssh_creds
          /\ CommandType(last'.full_command) \in
               {<<"READ_FILE">>, <<"LIST_FILES">>} )
        => ( /\ fs' = fs /\ rfs' = rfs
             /\ TargetMissing(last'.full_command, fs)
                  => ( /\ last'.res.returncode = 1
                       /\ last'.res.stderr # <<>>
                       /\ last'.res.stdout = <<>> ) ) ]_vars

\* both a read of a missing file and a listing of a file have failed, in a
\* file system that holds entries
C23_Witness ==
    /\ fs # <<>>
    /\ \/ /\ LocalCall("READ_FILE")
          /\ ~IsFile(fs, Args(last.full_command))
       \/ /\ LocalCall("LIST_FILES")
          /\ IsFile(fs, Args(last.full_command))
    /\ last.res.returncode = 1
    /\ last.res.stderr # <<>>


(***************************************************************************)
(* The end of a session, checked under SpecSession.                        *)
(***************************************************************************)
\* C24: a session that has stopped takes no further step, so it calls the
\* planner and the executor no more; and the row of its task is written
\* once only, by the step that ends the session, which stores the log of
\* all the executions made, none of them still running.
C24_StoppedIsAbsorbing ==
    [][ /\ Stopped => UNCHANGED <<planner_calls, executions, in_flight,
                                  full_log, tasks, pc>>
        /\ ( /\ task_id # 0 /\ task_id' = task_id
             /\ tasks'[task_id] # tasks[task_id] )
           => ( /\ ~Stopped
                /\ pc' = "returned"
                /\ tasks[task_id].execution_log = Null
                /\ tasks'[task_id].execution_log = JsonDumps(full_log)
                /\ Len(full_log) = executions
                /\ in_flight = 0
                /\ UNCHANGED <<planner_calls, executions, full_log>> ) ]_vars

\* a session has returned after two executions and three planner calls,
\* its log stored
C24_Witness ==
    /\ pc = "returned"
    /\ executions = 2 /\ planner_calls = 3
    /\ tasks[task_id].execution_log = JsonDumps(full_log)
    /\ Len(full_log) = 2


(***************************************************************************)
(* The fields of a result, checked under SpecExec.                         *)
(***************************************************************************)
\* C26, as claimed: every result execute_command returns, for a blank
\* directive as for any other, has the four fields command, stdout, stderr
\* and returncode.
C26_FourFields ==
    (last.called /\ "raised" \notin DOMAIN last.res)
    => DOMAIN last.res = {"command", "stdout", "stderr", "returncode"}


(***************************************************************************)
(* Standard mode.  handle_standard_mode asks the planner for a plan,       *)
(* stores the task and the plan's directives, and shows the plan with a    *)
(* confirm and a cancel button.  Every press of a button starts one        *)
(* button_callback_handler coroutine; the coroutines share the event loop, *)
(* so the code between two awaits of one of them runs without              *)
(* interruption and their awaits interleave in any order.                  *)
(***************************************************************************)
MaxProposals == 2       \* messages handled in standard mode
MaxPresses   == 2       \* button presses

Projects == {1, 2}

\* the table before the bot handles a message: a finished task, the task of
\* an autonomous session that has not stored its log, and a finished task of
\* another project
StandardTasks ==
    <<[project_id |-> 1, description |-> <<"earlier">>,
       plan |-> <<"echo">>, execution_log |-> JsonDumps(<<>>),
       status |-> "completed"],
      [project_id |-> 1, description |-> <<"running">>,
       plan |-> <<"Autonomous session">>, execution_log |-> Null,
       status |-> "pending"],
      [project_id |-> 2, description |-> <<"other">>,
       plan |-> <<"echo">>, execution_log |-> JsonDumps(<<>>),
       status |-> "completed"]>>

\* response.text of the model in standard mode
StandardTexts ==
    {<<"SP", "NL">>,
     <<"false", "NL", "NL", "LIST_FILES", "NL">>}

\* [cmd for cmd in command_string.split('\n') if cmd.strip()]
PlanCommands(command_string) ==
    SelectSeq(SplitLines(command_string), LAMBDA cmd : Strip(cmd) # <<>>)

\* the value of commands when chat_data has no entry for the task
NoCommands == <<>>

\* a dictionary lookup that leaves the entry in place
KeepEntry(chat, id) == chat

\* context.chat_data after pop(task_id, None)
Pop(chat, id) == [k \in DOMAIN chat \ {id} |-> chat[k]]

\* the value pop(task_id, None) returns
Popped(chat, id) == IF id \in DOMAIN chat THEN chat[id] ELSE NoCommands

\* handle_standard_mode for a message of the project: the planner answers
\* text; sent tells whether the message with the buttons reaches the chat
Propose(project_id, text, sent) ==
    /\ Len(proposals) < MaxProposals
    /\ IF PlanCommands(Strip(text)) = <<>>
       THEN /\ proposals' = Append(proposals,
                   [project_id |-> project_id,
                    history |-> get_project_history(tasks, project_id),
                    task_id |-> 0, shown |-> FALSE])
            /\ UNCHANGED <<tasks, chat_data>>
       ELSE /\ tasks' = create_task(tasks, project_id, TaskDescription,
                                    JoinNL(PlanCommands(Strip(text))))
            /\ chat_data' = (Len(tasks) + 1 :> PlanCommands(Strip(text)))
                              @@ chat_data
            /\ proposals' = Append(proposals,
                   [project_id |-> project_id,
                    history |-> get_project_history(tasks, project_id),
                    task_id |-> Len(tasks) + 1, shown |-> sent])
    /\ UNCHANGED <<fs, rfs, exec_vars, batch_vars, multi_vars, planner, pc, i,
                   task_id, history, last_command_output, command_to_execute,
                   full_log, planner_calls, executions, in_flight, requests,
                   callbacks, runs>>

\* what a callback leaves unchanged when it only moves on
CallbackFrame ==
    UNCHANGED <<fs, rfs, exec_vars, batch_vars, session_vars, multi_vars,
                runs, proposals>>

\* a button of the plan message of task id is pressed: a callback starts and
\* waits for query.answer()
Press(action, id) ==
    /\ Len(callbacks) < MaxPresses
    /\ \E k \in 1..Len(proposals) :
           proposals[k].task_id = id /\ proposals[k].shown
    /\ callbacks' = Append(callbacks,
           [action |-> action, task_id |-> id, pc |-> "answering",
            commands |-> NoCommands])
    /\ UNCHANGED chat_data
    /\ CallbackFrame

\* query.answer() has returned to callback c: the plan is popped; a cancel
\* and a callback that finds no plan send their message and return, a
\* confirm that holds the plan sends "plan accepted" and waits for it
Answered(c) ==
    /\ callbacks[c].pc = "answering"
    /\ chat_data' = Pop(chat_data, callbacks[c].task_id)
    /\ callbacks' =
         [callbacks EXCEPT
            ![c].commands = Popped(chat_data, callbacks[c].task_id),
            ![c].pc = IF callbacks[c].action = "cancel" THEN "rejected"
                      ELSE IF Popped(chat_data, callbacks[c].task_id) = NoCommands
                        THEN "not_found"
                      ELSE "await_accepted"]
    /\ CallbackFrame

\* the state after results = execute_commands(commands) and
\* db.update_task_log(task_id, json.dumps(results)) of callback c
PlanRun(c, r) ==
    /\ fs' = r.fs
    /\ tasks' = update_task_log(tasks, callbacks[c].task_id,
                                JsonDumps(r.results))
    /\ runs' = Append(runs, [task_id |-> callbacks[c].task_id,
                             callback |-> c, results |-> r.results])

\* the message "plan accepted" of callback c is sent: the plan is executed,
\* the log stored and the report sent, and the callback returns
Accepted(c) ==
    /\ callbacks[c].pc = "await_accepted"
    /\ PlanRun(c, execute_commands(callbacks[c].commands, FALSE,
                    [k \in 1..Len(callbacks[c].commands) |-> "ok"], fs, rfs))
    /\ callbacks' = [callbacks EXCEPT ![c].pc = "reported"]
    /\ UNCHANGED <<rfs, exec_vars, batch_vars, multi_vars, planner, pc, i,
                   task_id, history, last_command_output, command_to_execute,
                   full_log, planner_calls, executions, in_flight, requests,
                   chat_data, proposals>>

\* the call callback c awaits raises; nothing in the handler catches it
CallbackRaises(c) ==
    /\ callbacks[c].pc \in {"answering", "await_accepted"}
    /\ callbacks' = [callbacks EXCEPT
                       ![c].pc = IF callbacks[c].pc = "answering"
                                 THEN "unanswered" ELSE "raised"]
    /\ UNCHANGED chat_data
    /\ CallbackFrame

StandardInit ==
    /\ fs = FsSome
    /\ rfs = FsEmpty
    /\ ExecIdle /\ BatchIdle /\ MultiIdle
    /\ tasks = StandardTasks
    /\ planner = [stop_at |-> 0]
    /\ pc = "idle"
    /\ i = 0
    /\ task_id = 0
    /\ history = <<>>
    /\ last_command_output = "None"
    /\ command_to_execute = <<>>
    /\ full_log = <<>>
    /\ planner_calls = 0
    /\ executions = 0
    /\ in_flight = 0
    /\ requests = <<>>
    /\ StandardIdle

StandardNext ==
    \/ \E project_id \in Projects, text \in StandardTexts, sent \in BOOLEAN :
           Propose(project_id, text, sent)
    \/ \E action \in {"confirm", "cancel"}, id \in 1..(Len(tasks)) :
           Press(action, id)
    \/ \E c \in 1..Len(callbacks) :
           \/ Answered(c)
           \/ Accepted(c)
           \/ CallbackRaises(c)

SpecStandard == StandardInit /\ [][StandardNext]_vars


(***************************************************************************)
(* Properties of standard mode, checked under SpecStandard.                *)
(***************************************************************************)
\* the callbacks for task id that came back from query.answer() with the plan
Holders(id) ==
    {c \in 1..Len(callbacks) :
        callbacks[c].task_id = id /\ callbacks[c].commands # NoCommands}

\* C25: a plan is executed only by a callback of a confirm button of its own
\* task, whose message was shown, and with the directives of that plan; no
\* task's plan is executed twice; at most one callback of a task ever
\* obtains its plan, and when that callback is a cancel the plan is never
\* executed, whatever the order in which the callbacks run.
C25_ExecutedOnceAfterConfirm ==
    /\ \A n \in 1..Len(runs) :
          /\ callbacks[runs[n].callback].action = "confirm"
          /\ callbacks[runs[n].callback].task_id = runs[n].task_id
          /\ callbacks[runs[n].callback].pc = "reported"
          /\ Holders(runs[n].task_id) = {runs[n].callback}
          /\ \E k \in 1..Len(proposals) :
                proposals[k].task_id = runs[n].task_id /\ proposals[k].shown
          /\ JoinNL(callbacks[runs[n].callback].commands)
               = tasks[runs[n].task_id].plan
          /\ Len(runs[n].results) = Len(callbacks[runs[n].callback].commands)
    /\ \A n, m \in 1..Len(runs) : runs[n].task_id = runs[m].task_id => n = m
    /\ \A id \in 1..Len(tasks) :
          /\ Cardinality(Holders(id)) <= 1
          /\ (\E c \in Holders(id) : callbacks[c].action = "cancel")
               => \A n \in 1..Len(runs) : runs[n].task_id # id

\* two confirm callbacks of one task have both finished and the plan was
\* executed once
C25_Witness ==
    \E c, d \in 1..Len(callbacks) :
        /\ c # d
        /\ callbacks[c].task_id = callbacks[d].task_id
        /\ callbacks[c].action = "confirm" /\ callbacks[d].action = "confirm"
        /\ callbacks[c].pc = "reported" /\ callbacks[d].pc = "not_found"
        /\ Len(runs) = 1 /\ runs[1].task_id = callbacks[c].task_id


\* the rows of a project whose log column was written, as the history shows
\* them
WrittenRows(table, project_id) ==
    LET rows == SelectSeq(table, LAMBDA row :
                    row.project_id = project_id /\ row.execution_log # Null)
    IN  [k \in 1..Len(rows) |->
            [description |-> rows[k].description, plan |-> rows[k].plan,
             execution_log |-> rows[k].execution_log,
             status |-> rows[k].status]]

\* C27: a task's status is pending as long as its log was not written and
\* completed once it was; the history of a project is the list of its
\* tasks whose log was written, in order; and the history given to a
\* planner call holds no task whose log was not written, so none that was
\* cancelled, never confirmed or is still running.
C27_HistoryIsWrittenTasks ==
    /\ \A k \in 1..Len(tasks) :
          tasks[k].status = IF tasks[k].execution_log = Null THEN "pending"
                            ELSE "completed"
    /\ \A project_id \in Projects :
          get_project_history(tasks, project_id)
            = WrittenRows(tasks, project_id)
    /\ \A k \in 1..Len(proposals) :
          \A n \in 1..Len(proposals[k].history) :
              /\ proposals[k].history[n].execution_log # Null
              /\ proposals[k].history[n].status = "completed"
              /\ proposals[k].history[n].plan # <<"Autonomous session">>

\* a plan of project 1 was cancelled, and a later planner call for project 1
\* was given a history of one task while the project has three
C27_Witness ==
    /\ Len(proposals) = 2
    /\ proposals[1].project_id = 1 /\ proposals[2].project_id = 1
    /\ \E c \in 1..Len(callbacks) :
          /\ callbacks[c].action = "cancel" /\ callbacks[c].pc = "rejected"
          /\ callbacks[c].task_id = proposals[1].task_id
          /\ callbacks[c].commands # NoCommands
    /\ tasks[proposals[1].task_id].status = "pending"
    /\ Len(proposals[2].history) = 1
    /\ Cardinality({k \in 1..Len(tasks) : tasks[k].project_id = 1}) >= 3

=============================================================================
